---- MODULE Spec2Model ----
(***************************************************************************)
(* Model of sensor::PointcloudProcessor                                    *)
(* (ros2_ouster/include/ros2_ouster/processors/pointcloud_processor.hpp).  *)
(*                                                                         *)
(* The processor reads a FullRotationAccumulator (batch source), projects  *)
(* a ready scan into the reusable cloud buffer, publishes it on "points",  *)
(* looks up the transform to base_link and, when the lookup succeeds,      *)
(* publishes the transformed message on "points_base_link".  Both          *)
(* publishers are lifecycle publishers switched by onActivate and          *)
(* onDeactivate.                                                           *)
(***************************************************************************)
EXTENDS Integers, Sequences, FiniteSets, TLC

VARIABLES
    pub_activated,            \* _pub: LifecyclePublisher enabled flag
    pub_base_link_activated,  \* _pub_base_link: LifecyclePublisher enabled flag
    points,                   \* topic "points": last message and batches delivered
    points_base_link,         \* topic "points_base_link": the same
    cloud,                    \* *_cloud, the reusable cloud buffer
    batchReady,               \* _fullRotationAccumulator->isBatchReady()
    lidarScan,                \* *_fullRotationAccumulator->getLidarScan()
    timestamp,                \* _fullRotationAccumulator->getTimestamp()
    packetsAccumulated,       \* _fullRotationAccumulator->getPacketsAccumulated()
    tf_buffer_,               \* transforms sensor frame -> base_link known to tf_buffer_
    ret,                      \* outcome of the last process() invocation
    steps,                    \* statements executed by the last process() invocation
    calls,                    \* number of process() invocations so far
    inactiveAttempts,         \* publish() calls made on a deactivated publisher so far
    alive,                    \* FALSE once an exception has left process()
    last_transition,          \* last lifecycle call: "none", "activate", "deactivate"
    crop_in,                  \* cropBox: argument cloud
    crop_min,                 \* cropBox: argument min
    crop_max,                 \* cropBox: argument max
    crop_out,                 \* cropBox: returned crop_cloud
    crop_done,                \* cropBox has returned
    invocation                \* process() in progress: next statement and locals

procVars == <<pub_activated, pub_base_link_activated, points, points_base_link,
              cloud, batchReady, lidarScan, timestamp, packetsAccumulated,
              tf_buffer_, ret, steps, calls, inactiveAttempts, alive,
              last_transition, invocation>>
cropVars == <<crop_in, crop_min, crop_max, crop_out, crop_done>>
vars == <<pub_activated, pub_base_link_activated, points, points_base_link,
          cloud, batchReady, lidarScan, timestamp, packetsAccumulated,
          tf_buffer_, ret, steps, calls, inactiveAttempts, alive,
          last_transition, crop_in, crop_min, crop_max, crop_out, crop_done,
          invocation>>

(***************************************************************************)
(* Bounds of the model.                                                    *)
(***************************************************************************)
MaxCalls == 2
MaxBatches == 2
MaxRange == 1
MaxTf == 1
MaxCropLen == 2

(***************************************************************************)
(* Points and vectors.  A point is <<x, y, z>>; the designated invalid     *)
(* point is the empty tuple.                                               *)
(***************************************************************************)
InvalidPoint == << >>

IsValid(p) == Len(p) = 3

VAdd(a, b) == <<a[1] + b[1], a[2] + b[2], a[3] + b[3]>>

VScale(a, k) == <<a[1] * k, a[2] * k, a[3] * k>>

(***************************************************************************)
(* Configuration fixed by the constructor.                                 *)
(***************************************************************************)
_height == 2

_width == 2

_frame == "laser_sensor_frame"

\* Position of cell (row u, column v) in a row-major buffer of width w.
CloudIndex(u, v, w) == u * w + v + 1

\* ouster::make_xyz_lut(mdata): one direction and one offset per cell.
_xyz_lut ==
    [h |-> _height, w |-> _width,
     direction |-> << <<1, 0, 0>>, <<0, 1, 0>>, <<-1, 0, 0>>, <<0, -1, 0>> >>,
     offset |-> << <<0, 0, 0>>, <<0, 0, 0>>, <<0, 0, 1>>, <<0, 0, 1>> >>]

\* A pcl cloud: width, height and the point buffer.
MakeCloud(w, h, pts) == [width |-> w, height |-> h, points |-> pts]

\* Cloud(_width, _height): default-constructed points.
InitialCloud == MakeCloud(_width, _height, [i \in 1..(_width * _height) |-> <<0, 0, 0>>])

\* Range images of h rows and w columns delivered by the accumulator: every
\* cell at the same range (0 = no return anywhere), or a single return at
\* the largest range.
UniformRanges(h, w) == {[i \in 1..(h * w) |-> r] : r \in 0..MaxRange}

SingleReturns(h, w) ==
    {[i \in 1..(h * w) |-> IF i = c THEN MaxRange ELSE 0] : c \in 1..(h * w)}

Scans(h, w) ==
    {[h |-> h, w |-> w, range |-> r] : r \in UniformRanges(h, w) \cup SingleReturns(h, w)}

EmptyScan(h, w) == [h |-> h, w |-> w, range |-> [i \in 1..(h * w) |-> 0]]

(***************************************************************************)
(* Conversions.                                                            *)
(***************************************************************************)
\* ros2_ouster::toCloud: projects the scan through the LUT, cell by cell.
toCloud(lut, scan) ==
    IF scan.h # lut.h \/ scan.w # lut.w
    THEN [ok |-> FALSE, cloud |-> MakeCloud(0, 0, << >>)]
    ELSE [ok |-> TRUE,
          cloud |-> MakeCloud(scan.w, scan.h,
              [i \in 1..(scan.h * scan.w) |->
                  LET u == (i - 1) \div scan.w
                      v == (i - 1) % scan.w
                      r == scan.range[CloudIndex(u, v, scan.w)]
                  IN IF r = 0 THEN InvalidPoint
                     ELSE VAdd(VScale(lut.direction[CloudIndex(u, v, lut.w)], r),
                               lut.offset[CloudIndex(u, v, lut.w)])])]

\* ros2_ouster::toMsg: the cloud as a PointCloud2 with frame and stamp.
toMsg(c, ts, frame, override_ts) ==
    [frame_id |-> frame,
     stamp |-> IF override_ts = 0 THEN ts ELSE override_ts,
     height |-> c.height, width |-> c.width, data |-> c.points,
     batch |-> ts]

NoMsg == [frame_id |-> "", stamp |-> 0, height |-> 0, width |-> 0,
          data |-> << >>, batch |-> 0]

(***************************************************************************)
(* Transform service.                                                      *)
(***************************************************************************)
Transforms ==
    {[rotation |-> "identity", translation |-> <<1, 0, 0>>],
     [rotation |-> "yaw90", translation |-> <<0, 0, 2>>]}

NoTransform == [rotation |-> "identity", translation |-> <<0, 0, 0>>]

TimePointZero == 0

\* tf_buffer_->lookupTransform("base_link", _frame, time): time zero asks
\* for the latest transform; an empty buffer throws tf2::TransformException.
lookupTransform(buf, time) ==
    IF time = TimePointZero
    THEN IF Len(buf) = 0 THEN [ok |-> FALSE, transform |-> NoTransform]
         ELSE [ok |-> TRUE, transform |-> buf[Len(buf)]]
    ELSE IF time \in 1..Len(buf) THEN [ok |-> TRUE, transform |-> buf[time]]
         ELSE [ok |-> FALSE, transform |-> NoTransform]

Rotate(rot, p) == IF rot = "yaw90" THEN <<0 - p[2], p[1], p[3]>> ELSE p

\* A transformation that translates without rotating.
transformPointCloudTranslateOnly(target, transform, msg) ==
    [msg EXCEPT !.frame_id = target,
                !.data = [i \in 1..Len(msg.data) |->
                             IF IsValid(msg.data[i])
                             THEN VAdd(msg.data[i], transform.translation)
                             ELSE msg.data[i]]]

\* pcl_ros::transformPointCloud(target, transform, in, out).
transformPointCloud(target, transform, msg) ==
    [msg EXCEPT !.frame_id = target,
                !.data = [i \in 1..Len(msg.data) |->
                    IF IsValid(msg.data[i])
                    THEN VAdd(Rotate(transform.rotation, msg.data[i]),
                              transform.translation)
                    ELSE msg.data[i]]]

(***************************************************************************)
(* Lifecycle publisher.                                                    *)
(***************************************************************************)
\* A publisher that delivers whatever its lifecycle state.
publishUngated(activated, channel, msg) ==
    [last |-> msg, delivered |-> Append(channel.delivered, msg.batch)]

\* A topic on which nothing has been delivered yet.
EmptyChannel == [last |-> NoMsg, delivered |-> << >>]

\* A publisher that remembers the batch it delivered last and skips it.
DeliverOncePerBatch(channel, msg) ==
    IF channel.last.batch = msg.batch THEN channel
    ELSE [last |-> msg, delivered |-> Append(channel.delivered, msg.batch)]

\* Delivery of msg to the subscribers of a topic: the message becomes the
\* latest one and its batch is appended to the record of deliveries.
Deliver(channel, msg) ==
    [last |-> msg, delivered |-> Append(channel.delivered, msg.batch)]

\* LifecyclePublisher::publish: delivers only while activated.
publish(activated, channel, msg) ==
    IF activated THEN Deliver(channel, msg) ELSE channel

(***************************************************************************)
(* process(): the statements of the body in source order.  The crop        *)
(* statement exists in the source only as a comment and is not part of     *)
(* the body.                                                               *)
(***************************************************************************)
\* The lookup issued before the publish on "points".
ProcessBodyLookupFirst ==
    <<"toCloud", "toMsg", "lookupTransform", "publish",
      "transformPointCloud", "publish_base_link">>

\* The publish on "points_base_link" issued before the lookup.
ProcessBodySecondaryFirst ==
    <<"toCloud", "toMsg", "publish", "publish_base_link",
      "lookupTransform", "transformPointCloud">>

\* The commented-out crop executed on the message.
ProcessBodyWithCrop ==
    <<"toCloud", "toMsg", "cropBox", "publish", "lookupTransform",
      "transformPointCloud", "publish_base_link">>

\* The message is transformed before it is published on "points".
ProcessBodyTransformFirst ==
    <<"toCloud", "toMsg", "lookupTransform", "transformPointCloud",
      "publish", "publish_base_link">>

ProcessBody ==
    <<"toCloud", "toMsg", "publish", "lookupTransform",
      "transformPointCloud", "publish_base_link">>

\* A lookup at the batch timestamp.
LookupTimeOfBatch(ts) == ts

\* Time argument of the lookup issued for a batch stamped ts.
LookupTime(ts) == TimePointZero

\* Value returned by the early return when no batch is ready.
NotReadyReturn == "true"

CatchReturnFalse == "false"

\* Value returned by the catch block.
CatchReturn == "true"

\* Value returned at the end of the body.
FinalReturn == "true"

\* The box of the commented-out crop call: the cell around the origin.
CropMin == <<0, 0, 0>>

CropMax == <<0, 0, 0>>

\* pcl::CropBox::filter(indices): indices of the finite points inside
\* [min, max], bounds included.
InsideBox(p, min, max) ==
    /\ IsValid(p)
    /\ \A k \in 1..3 : min[k] <= p[k] /\ p[k] <= max[k]

CropBoxIndices(pts, min, max) == {i \in 1..Len(pts) : InsideBox(pts[i], min, max)}

\* The extraction without setNegative(true): the listed points are kept.
RECURSIVE ExtractPositive(_, _, _)
ExtractPositive(pts, indices, i) ==
    IF i > Len(pts) THEN << >>
    ELSE IF i \in indices THEN <<pts[i]>> \o ExtractPositive(pts, indices, i + 1)
         ELSE ExtractPositive(pts, indices, i + 1)

\* pcl::ExtractIndices with setNegative(true): the points whose index is
\* not listed, in their original order.
RECURSIVE ExtractNegative(_, _, _)
ExtractNegative(pts, indices, i) ==
    IF i > Len(pts) THEN << >>
    ELSE IF i \in indices THEN ExtractNegative(pts, indices, i + 1)
         ELSE <<pts[i]>> \o ExtractNegative(pts, indices, i + 1)

\* cropBox(cloud, min, max): an unorganized cloud of the remaining points.
cropBox(c, min, max) ==
    LET kept == ExtractNegative(c.points, CropBoxIndices(c.points, min, max), 1)
    IN MakeCloud(Len(kept), 1, kept)

\* No invocation of process() is in progress.
NoInvocation ==
    [pc |-> 0, ros_cloud |-> NoMsg, transform |-> NoTransform, override_ts |-> 0]

\* Local and output state at the start of a process() invocation.
EntryState ==
    [points |-> points, points_base_link |-> points_base_link, cloud |-> cloud,
     ros_cloud |-> NoMsg, transform |-> NoTransform, steps |-> << >>,
     inactiveAttempts |-> inactiveAttempts, status |-> "running"]

\* One statement of the body.
Exec(stmt, st0, override_ts) ==
    LET st == [st0 EXCEPT !.steps = Append(st0.steps, stmt)] IN
    CASE stmt = "toCloud" ->
           LET built == toCloud(_xyz_lut, lidarScan) IN
           IF built.ok THEN [st EXCEPT !.cloud = built.cloud]
           ELSE [st EXCEPT !.status = "ConfigurationFault"]
      [] stmt = "toMsg" ->
           [st EXCEPT !.ros_cloud = toMsg(st.cloud, timestamp, _frame, override_ts)]
      [] stmt = "cropBox" ->
           LET cropped == cropBox(MakeCloud(st.ros_cloud.width, st.ros_cloud.height,
                                            st.ros_cloud.data), CropMin, CropMax)
           IN [st EXCEPT !.ros_cloud.width = cropped.width,
                         !.ros_cloud.height = cropped.height,
                         !.ros_cloud.data = cropped.points]
      [] stmt = "publish" ->
           [st EXCEPT !.points = publish(pub_activated, st.points, st.ros_cloud),
                      !.inactiveAttempts = IF pub_activated THEN @ ELSE @ + 1]
      [] stmt = "lookupTransform" ->
           LET found == lookupTransform(tf_buffer_, LookupTime(timestamp)) IN
           IF found.ok THEN [st EXCEPT !.transform = found.transform]
           ELSE [st EXCEPT !.status = "TransformException"]
      [] stmt = "transformPointCloud" ->
           [st EXCEPT !.ros_cloud = transformPointCloud("base_link", st.transform,
                                                        st.ros_cloud)]
      [] stmt = "publish_base_link" ->
           [st EXCEPT !.points_base_link = publish(pub_base_link_activated,
                                                   st.points_base_link, st.ros_cloud),
                      !.inactiveAttempts = IF pub_base_link_activated THEN @ ELSE @ + 1]

\* The body from statement i on, until it ends or a statement throws.
RECURSIVE RunFrom(_, _, _)
RunFrom(i, st, override_ts) ==
    IF i > Len(ProcessBody) \/ st.status # "running" THEN st
    ELSE RunFrom(i + 1, Exec(ProcessBody[i], st, override_ts), override_ts)

\* A catch block that swallows every exception.
OutcomeCatchAll(st) ==
    IF st.status = "running" THEN FinalReturn ELSE CatchReturn

\* Outcome of an invocation that ended in state st: the catch block turns a
\* tf2::TransformException into a return; any other exception propagates.
Outcome(st) ==
    IF st.status = "running" THEN FinalReturn
    ELSE IF st.status = "TransformException" THEN CatchReturn
    ELSE "exception"

(***************************************************************************)
(* Initial state: the processor as left by the constructor, the            *)
(* accumulator holding an empty scan of the sensor's dimensions.           *)
(***************************************************************************)
InitCropIdle ==
    /\ crop_in = MakeCloud(0, 1, << >>)
    /\ crop_min = <<0, 0, 0>>
    /\ crop_max = <<0, 0, 0>>
    /\ crop_out = MakeCloud(0, 1, << >>)
    /\ crop_done = FALSE

InitProcessor ==
    /\ pub_activated = FALSE
    /\ pub_base_link_activated = FALSE
    /\ points = EmptyChannel
    /\ points_base_link = EmptyChannel
    /\ cloud = InitialCloud
    /\ batchReady = FALSE
    /\ timestamp = 0
    /\ packetsAccumulated = 0
    /\ tf_buffer_ = << >>
    /\ ret = "none"
    /\ steps = << >>
    /\ calls = 0
    /\ inactiveAttempts = 0
    /\ alive = TRUE
    /\ last_transition = "none"
    /\ invocation = NoInvocation

Init ==
    /\ InitProcessor
    /\ lidarScan = EmptyScan(_height, _width)
    /\ InitCropIdle

(***************************************************************************)
(* Operations of the processor.                                            *)
(***************************************************************************)
isBatchReadyAlways == TRUE

\* _fullRotationAccumulator->isBatchReady()
isBatchReady == batchReady

\* Values of the override_ts argument: the caller passes 0, which keeps the
\* batch timestamp as the message stamp.
OverrideStamps == {0}

\* An invocation that deactivates both publishers when the lookup fails.
processClosingGateOnFailure(override_ts) ==
    /\ alive
    /\ calls < MaxCalls
    /\ calls' = calls + 1
    /\ IF ~isBatchReady
       THEN /\ ret' = NotReadyReturn
            /\ steps' = << >>
            /\ UNCHANGED <<points, points_base_link, cloud, inactiveAttempts, alive,
                           pub_activated, pub_base_link_activated>>
       ELSE LET st == RunFrom(1, EntryState, override_ts) IN
            /\ points' = st.points
            /\ points_base_link' = st.points_base_link
            /\ cloud' = st.cloud
            /\ inactiveAttempts' = st.inactiveAttempts
            /\ ret' = Outcome(st)
            /\ steps' = IF st.status = "TransformException"
                        THEN Append(st.steps, "catch") ELSE st.steps
            /\ alive' = (Outcome(st) # "exception")
            /\ pub_activated' = (pub_activated /\ st.status # "TransformException")
            /\ pub_base_link_activated'
                  = (pub_base_link_activated /\ st.status # "TransformException")
    /\ UNCHANGED <<batchReady, lidarScan, timestamp, packetsAccumulated, tf_buffer_,
                   last_transition>>
    /\ UNCHANGED cropVars
    /\ UNCHANGED invocation

\* An invocation that consumes the batch it processed.
processConsumingBatch(override_ts) ==
    /\ alive
    /\ calls < MaxCalls
    /\ calls' = calls + 1
    /\ IF ~isBatchReady
       THEN /\ ret' = NotReadyReturn
            /\ steps' = << >>
            /\ UNCHANGED <<points, points_base_link, cloud, inactiveAttempts, alive>>
       ELSE LET st == RunFrom(1, EntryState, override_ts) IN
            /\ points' = st.points
            /\ points_base_link' = st.points_base_link
            /\ cloud' = st.cloud
            /\ inactiveAttempts' = st.inactiveAttempts
            /\ ret' = Outcome(st)
            /\ steps' = IF st.status = "TransformException"
                        THEN Append(st.steps, "catch") ELSE st.steps
            /\ alive' = (Outcome(st) # "exception")
    /\ batchReady' = FALSE
    /\ UNCHANGED <<pub_activated, pub_base_link_activated, lidarScan,
                   timestamp, packetsAccumulated, tf_buffer_, last_transition>>
    /\ UNCHANGED cropVars
    /\ UNCHANGED invocation

process(override_ts) ==
    /\ alive
    /\ calls < MaxCalls
    /\ calls' = calls + 1
    /\ IF ~isBatchReady
       THEN /\ ret' = NotReadyReturn
            /\ steps' = << >>
            /\ UNCHANGED <<points, points_base_link, cloud, inactiveAttempts, alive>>
       ELSE LET st == RunFrom(1, EntryState, override_ts) IN
            /\ points' = st.points
            /\ points_base_link' = st.points_base_link
            /\ cloud' = st.cloud
            /\ inactiveAttempts' = st.inactiveAttempts
            /\ ret' = Outcome(st)
            /\ steps' = IF st.status = "TransformException"
                        THEN Append(st.steps, "catch") ELSE st.steps
            /\ alive' = (Outcome(st) # "exception")
    /\ UNCHANGED <<pub_activated, pub_base_link_activated, batchReady, lidarScan,
                   timestamp, packetsAccumulated, tf_buffer_, last_transition>>
    /\ UNCHANGED cropVars
    /\ UNCHANGED invocation

\* Only the "points" publisher is activated.
onActivatePrimaryOnly ==
    /\ alive
    /\ pub_activated' = TRUE
    /\ last_transition' = "activate"
    /\ UNCHANGED <<pub_base_link_activated, points, points_base_link, cloud,
                   batchReady, lidarScan, timestamp, packetsAccumulated, tf_buffer_,
                   ret, steps, calls, inactiveAttempts, alive>>
    /\ UNCHANGED cropVars
    /\ UNCHANGED invocation

\* A gate that opens on the first activation only.
onActivateOnce ==
    /\ alive
    /\ pub_activated' = (last_transition = "none" \/ pub_activated)
    /\ pub_base_link_activated' = (last_transition = "none" \/ pub_base_link_activated)
    /\ last_transition' = "activate"
    /\ UNCHANGED <<points, points_base_link, cloud, batchReady, lidarScan, timestamp,
                   packetsAccumulated, tf_buffer_, ret, steps, calls,
                   inactiveAttempts, alive>>
    /\ UNCHANGED cropVars
    /\ UNCHANGED invocation

onActivate ==
    /\ alive
    /\ pub_activated' = TRUE
    /\ pub_base_link_activated' = TRUE
    /\ last_transition' = "activate"
    /\ UNCHANGED <<points, points_base_link, cloud, batchReady, lidarScan, timestamp,
                   packetsAccumulated, tf_buffer_, ret, steps, calls,
                   inactiveAttempts, alive>>
    /\ UNCHANGED cropVars
    /\ UNCHANGED invocation

\* Only the "points" publisher is deactivated.
onDeactivatePrimaryOnly ==
    /\ alive
    /\ pub_activated' = FALSE
    /\ last_transition' = "deactivate"
    /\ UNCHANGED <<pub_base_link_activated, points, points_base_link, cloud,
                   batchReady, lidarScan, timestamp, packetsAccumulated, tf_buffer_,
                   ret, steps, calls, inactiveAttempts, alive>>
    /\ UNCHANGED cropVars
    /\ UNCHANGED invocation

\* Only the "points_base_link" publisher is deactivated.
onDeactivateSecondaryOnly ==
    /\ alive
    /\ pub_base_link_activated' = FALSE
    /\ last_transition' = "deactivate"
    /\ UNCHANGED <<pub_activated, points, points_base_link, cloud,
                   batchReady, lidarScan, timestamp, packetsAccumulated, tf_buffer_,
                   ret, steps, calls, inactiveAttempts, alive>>
    /\ UNCHANGED cropVars
    /\ UNCHANGED invocation

onDeactivate ==
    /\ alive
    /\ pub_activated' = FALSE
    /\ pub_base_link_activated' = FALSE
    /\ last_transition' = "deactivate"
    /\ UNCHANGED <<points, points_base_link, cloud, batchReady, lidarScan, timestamp,
                   packetsAccumulated, tf_buffer_, ret, steps, calls,
                   inactiveAttempts, alive>>
    /\ UNCHANGED cropVars
    /\ UNCHANGED invocation

(***************************************************************************)
(* Collaborators: the accumulator fed by the packet stream and the         *)
(* transform listener filling tf_buffer_.                                  *)
(***************************************************************************)
\* The first packet of the next rotation: the batch is no longer ready.
AccumulatePacket ==
    /\ alive
    /\ batchReady
    /\ batchReady' = FALSE
    /\ packetsAccumulated' = 1
    /\ UNCHANGED <<pub_activated, pub_base_link_activated, points, points_base_link,
                   cloud, lidarScan, timestamp, tf_buffer_, ret, steps, calls,
                   inactiveAttempts, alive,
                   last_transition>>
    /\ UNCHANGED cropVars
    /\ UNCHANGED invocation

\* The packet that completes a rotation: a new scan of the accumulator's
\* dimensions becomes ready.
CompleteBatch ==
    /\ alive
    /\ ~batchReady
    /\ timestamp < MaxBatches
    /\ batchReady' = TRUE
    /\ lidarScan' \in Scans(lidarScan.h, lidarScan.w)
    /\ timestamp' = timestamp + 1
    /\ packetsAccumulated' = packetsAccumulated + 1
    /\ UNCHANGED <<pub_activated, pub_base_link_activated, points, points_base_link,
                   cloud, tf_buffer_, ret, steps, calls, inactiveAttempts, alive,
                   last_transition>>
    /\ UNCHANGED cropVars
    /\ UNCHANGED invocation

\* The listener receives a transform from the sensor frame to base_link.
TfBroadcast ==
    /\ alive
    /\ Len(tf_buffer_) < MaxTf
    /\ \E t \in Transforms : tf_buffer_' = Append(tf_buffer_, t)
    /\ UNCHANGED <<pub_activated, pub_base_link_activated, points, points_base_link,
                   cloud, batchReady, lidarScan, timestamp, packetsAccumulated,
                   ret, steps, calls, inactiveAttempts, alive,
                   last_transition>>
    /\ UNCHANGED cropVars
    /\ UNCHANGED invocation

\* The buffer is cleared (time jump): lookups fail until the next broadcast.
TfClear ==
    /\ alive
    /\ Len(tf_buffer_) > 0
    /\ tf_buffer_' = << >>
    /\ UNCHANGED <<pub_activated, pub_base_link_activated, points, points_base_link,
                   cloud, batchReady, lidarScan, timestamp, packetsAccumulated,
                   ret, steps, calls, inactiveAttempts, alive,
                   last_transition>>
    /\ UNCHANGED cropVars
    /\ UNCHANGED invocation

Next ==
    \/ \E override_ts \in OverrideStamps : process(override_ts)
    \/ onActivate
    \/ onDeactivate
    \/ AccumulatePacket
    \/ CompleteBatch
    \/ TfBroadcast
    \/ TfClear

Spec == Init /\ [][Next]_vars

(***************************************************************************)
(* A deployment whose accumulator may have been built for fewer rows than  *)
(* the LUT: the scan height is fixed at start-up, equal to _height or not. *)
(***************************************************************************)
InitAnyScan ==
    /\ InitProcessor
    /\ lidarScan \in {EmptyScan(h, _width) : h \in {_height, _height - 1}}
    /\ InitCropIdle

SpecAnyScan == InitAnyScan /\ [][Next]_vars

(***************************************************************************)
(* cropBox applied to an arbitrary small cloud and box.                    *)
(***************************************************************************)
CropCoord == 0..1

BoxCoord == -1..2

CropPoints == {<<x, y, z>> : x \in CropCoord, y \in CropCoord, z \in CropCoord}
                  \cup {InvalidPoint}

BoxCorners == {<<x, y, z>> : x \in BoxCoord, y \in BoxCoord, z \in BoxCoord}

CropClouds ==
    UNION {{MakeCloud(n, 1, pts) : pts \in [1..n -> CropPoints]} : n \in 0..MaxCropLen}

InitCrop ==
    /\ InitProcessor
    /\ lidarScan = EmptyScan(_height, _width)
    /\ crop_in \in CropClouds
    /\ crop_min = <<0, 0, 0>>
    /\ crop_max = <<0, 0, 0>>
    /\ crop_out = MakeCloud(0, 1, << >>)
    /\ crop_done = FALSE

cropBoxCall ==
    /\ ~crop_done
    /\ \E min \in BoxCorners, max \in BoxCorners :
          /\ crop_min' = min
          /\ crop_max' = max
          /\ crop_out' = cropBox(crop_in, min, max)
    /\ crop_done' = TRUE
    /\ UNCHANGED crop_in
    /\ UNCHANGED procVars

NextCrop == cropBoxCall

SpecCrop == InitCrop /\ [][NextCrop]_vars

(***************************************************************************)
(* process() statement by statement, with lifecycle calls and transform    *)
(* broadcasts arriving between its statements.  The accumulator is driven  *)
(* by the caller of process() and does not move while process() runs.      *)
(***************************************************************************)
\* Entry of process(): the readiness test, then the body starts.
processEnter(override_ts) ==
    /\ alive
    /\ invocation.pc = 0
    /\ calls < MaxCalls
    /\ calls' = calls + 1
    /\ steps' = << >>
    /\ IF ~isBatchReady
       THEN /\ ret' = NotReadyReturn
            /\ UNCHANGED invocation
       ELSE /\ ret' = "running"
            /\ invocation' = [NoInvocation EXCEPT !.pc = 1,
                                                  !.override_ts = override_ts]
    /\ UNCHANGED <<pub_activated, pub_base_link_activated, points, points_base_link,
                   cloud, batchReady, lidarScan, timestamp, packetsAccumulated,
                   tf_buffer_, inactiveAttempts, alive, last_transition>>
    /\ UNCHANGED cropVars

\* The next statement of the body; the invocation returns after the last
\* statement or through the catch block.
processStatement ==
    /\ alive
    /\ invocation.pc > 0
    /\ LET st == Exec(ProcessBody[invocation.pc],
                      [EntryState EXCEPT !.ros_cloud = invocation.ros_cloud,
                                         !.transform = invocation.transform,
                                         !.steps = steps],
                      invocation.override_ts)
           done == st.status # "running" \/ invocation.pc = Len(ProcessBody)
       IN /\ points' = st.points
          /\ points_base_link' = st.points_base_link
          /\ cloud' = st.cloud
          /\ inactiveAttempts' = st.inactiveAttempts
          /\ steps' = IF st.status = "TransformException"
                      THEN Append(st.steps, "catch") ELSE st.steps
          /\ ret' = IF done THEN Outcome(st) ELSE ret
          /\ alive' = (done => Outcome(st) # "exception")
          /\ invocation' = IF done THEN NoInvocation
                           ELSE [invocation EXCEPT !.pc = @ + 1,
                                                   !.ros_cloud = st.ros_cloud,
                                                   !.transform = st.transform]
    /\ UNCHANGED <<pub_activated, pub_base_link_activated, batchReady, lidarScan,
                   timestamp, packetsAccumulated, tf_buffer_, calls, last_transition>>
    /\ UNCHANGED cropVars

\* The packet that completes a rotation, the scan being one of uniform
\* range: the interleavings do not depend on the contents of the scan.
CompleteUniformBatch ==
    /\ alive
    /\ invocation.pc = 0
    /\ ~batchReady
    /\ timestamp < MaxBatches
    /\ batchReady' = TRUE
    /\ \E range \in UniformRanges(lidarScan.h, lidarScan.w) :
          lidarScan' = [lidarScan EXCEPT !.range = range]
    /\ timestamp' = timestamp + 1
    /\ packetsAccumulated' = packetsAccumulated + 1
    /\ UNCHANGED <<pub_activated, pub_base_link_activated, points, points_base_link,
                   cloud, tf_buffer_, ret, steps, calls, inactiveAttempts, alive,
                   last_transition>>
    /\ UNCHANGED cropVars
    /\ UNCHANGED invocation

NextInterleaved ==
    \/ \E override_ts \in OverrideStamps : processEnter(override_ts)
    \/ processStatement
    \/ onActivate
    \/ onDeactivate
    \/ (invocation.pc = 0 /\ AccumulatePacket)
    \/ CompleteUniformBatch
    \/ TfBroadcast
    \/ TfClear

SpecInterleaved == Init /\ [][NextInterleaved]_vars

(***************************************************************************)
(* Properties.                                                             *)
(***************************************************************************)
GateActive == pub_activated /\ pub_base_link_activated

GateInactive == ~pub_activated /\ ~pub_base_link_activated

\* The step is an invocation of process().
ProcessCalled == calls' = calls + 1

\* The lookup process() issues in the current state succeeds.
LookupOk == lookupTransform(tf_buffer_, LookupTime(timestamp)).ok

\* The previous invocation of process() ended in the catch block.
PreviousLookupFailed == Len(steps) > 0 /\ steps[Len(steps)] = "catch"

DimensionsMatch == lidarScan.h = _xyz_lut.h /\ lidarScan.w = _xyz_lut.w

\* C1: a ready batch processed while the gate is active and the transform
\* lookup fails gets exactly one message on "points" and none on
\* "points_base_link", and process() returns success; the invocation that
\* follows a failed one publishes on "points" again, and on
\* "points_base_link" exactly when its own lookup succeeds.
C1_TransformFailureIsolated ==
    [][(ProcessCalled /\ batchReady /\ GateActive) =>
          /\ ~LookupOk =>
                /\ Len(points'.delivered) = Len(points.delivered) + 1
                /\ points'.last.batch = timestamp
                /\ points_base_link' = points_base_link
                /\ ret' = "true"
                /\ alive'
          /\ PreviousLookupFailed =>
                /\ Len(points'.delivered) = Len(points.delivered) + 1
                /\ points'.last.batch = timestamp
                /\ Len(points_base_link'.delivered) =
                      Len(points_base_link.delivered) + (IF LookupOk THEN 1 ELSE 0)
                /\ ret' = "true"]_vars

\* Batch 1 lost its transform, batch 2 was published on both channels.
C1_Witness ==
    /\ calls = 2
    /\ Len(points.delivered) = 2
    /\ points.delivered = <<1, 2>>
    /\ Len(points_base_link.delivered) = 1
    /\ points_base_link.delivered = <<2>>

\* C2: while the last lifecycle call is not activate() no step delivers a
\* message on either channel; after activate(), processing a ready batch
\* delivers exactly one message on "points", and one on "points_base_link"
\* if and only if the lookup succeeds.
C2_GateControlsPublication ==
    [][/\ last_transition # "activate" =>
             (points' = points /\ points_base_link' = points_base_link)
       /\ (ProcessCalled /\ batchReady /\ last_transition = "activate") =>
             /\ Len(points'.delivered) = Len(points.delivered) + 1
             /\ Len(points_base_link'.delivered) =
                   Len(points_base_link.delivered) + (IF LookupOk THEN 1 ELSE 0)]_vars

\* A batch was dropped while inactive, then one was published on both
\* channels after activate().
C2_Witness ==
    /\ last_transition = "activate"
    /\ inactiveAttempts = 2
    /\ calls = 2
    /\ Len(points.delivered) = 1
    /\ Len(points_base_link.delivered) = 1

\* C3: process() on a batch source that is not ready returns success,
\* executes no statement of the body (no build, no lookup, no publish) and
\* leaves the cloud buffer, both channels and the gate unchanged.
C3_NotReadyIsNoOp ==
    [][(ProcessCalled /\ ~batchReady) =>
          /\ ret' = "true"
          /\ steps' = << >>
          /\ UNCHANGED <<cloud, points, points_base_link, pub_activated,
                         pub_base_link_activated, inactiveAttempts>>]_vars

\* A not-ready invocation after a batch has been built and published.
C3_Witness ==
    /\ calls = 2
    /\ ~batchReady
    /\ steps = << >>
    /\ ret = "true"
    /\ GateActive
    /\ Len(points.delivered) = 1
    /\ cloud # InitialCloud

\* C4: every invocation of process() on a scan of the LUT's dimensions
\* completes and returns success, whatever the readiness, the gate state
\* and the outcome of the lookup.
C4_ProcessReturnsSuccess ==
    [][(ProcessCalled /\ DimensionsMatch) => (ret' = "true" /\ alive')]_vars

\* Success was returned for a ready batch whose publish was dropped and
\* whose lookup failed.
C4_Witness ==
    /\ DimensionsMatch
    /\ ret = "true"
    /\ PreviousLookupFailed
    /\ inactiveAttempts = 1
    /\ calls = 2

\* C5: a ready scan whose dimensions differ from the LUT's makes the build
\* fail: the exception leaves process(), which returns nothing, nothing is
\* published on either channel and the cloud buffer is left as it was.
C5_DimensionMismatchFaults ==
    [][(ProcessCalled /\ batchReady /\ ~DimensionsMatch) =>
          /\ ret' = "exception"
          /\ ~alive'
          /\ steps' = <<"toCloud">>
          /\ UNCHANGED <<cloud, points, points_base_link>>]_vars

\* The build failed although the gate was active and a transform known.
C5_Witness ==
    /\ ~DimensionsMatch
    /\ ret = "exception"
    /\ GateActive
    /\ Len(tf_buffer_) > 0
    /\ points = EmptyChannel
    /\ points_base_link = EmptyChannel

\* C6: both publishers are always in the same publication state: active
\* after onActivate, inactive after onDeactivate and before any call.
C6_ChannelsMoveTogether ==
    /\ pub_activated = pub_base_link_activated
    /\ last_transition = "activate" => GateActive
    /\ last_transition # "activate" => GateInactive

\* The gate was active, published, and was deactivated again.
C6_Witness ==
    /\ last_transition = "deactivate"
    /\ GateInactive
    /\ Len(points.delivered) > 0
    /\ Len(points_base_link.delivered) > 0

\* Position of statement x in the executed statements s, 0 when absent.
Position(s, x) ==
    IF \E i \in 1..Len(s) : s[i] = x
    THEN CHOOSE i \in 1..Len(s) : s[i] = x /\ \A j \in 1..(i - 1) : s[j] # x
    ELSE 0

Executed(x) == Position(steps, x) > 0

\* C7: an invocation on a ready batch builds, publishes on "points", looks
\* the transform up and publishes on "points_base_link" in that order; the
\* publish on "points" precedes the lookup whatever its outcome, and the
\* publish on "points_base_link" follows a lookup that did not fail.
C7_StepOrder ==
    Len(steps) > 0 =>
        /\ Position(steps, "toCloud") = 1
        /\ Executed("publish")
        /\ Executed("lookupTransform")
        /\ Position(steps, "toCloud") < Position(steps, "publish")
        /\ Position(steps, "publish") < Position(steps, "lookupTransform")
        /\ Executed("publish_base_link") <=> ~Executed("catch")
        /\ Executed("publish_base_link") =>
              /\ Position(steps, "lookupTransform") < Position(steps, "transformPointCloud")
              /\ Position(steps, "transformPointCloud") < Position(steps, "publish_base_link")
        /\ Executed("catch") =>
              Position(steps, "catch") = Position(steps, "lookupTransform") + 1

\* An invocation went through all four steps.
C7_Witness ==
    /\ steps = <<"toCloud", "toMsg", "publish", "lookupTransform",
                 "transformPointCloud", "publish_base_link">>
    /\ Len(points.delivered) = 1
    /\ Len(points_base_link.delivered) = 1

\* The mutable state a PointcloudProcessor object owns.
ProcessorState == <<cloud, pub_activated, pub_base_link_activated, tf_buffer_>>

\* Number of publish() calls an invocation on a ready batch makes.
PublishCalls == 1 + (IF LookupOk THEN 1 ELSE 0)

\* C8 as stated: publishes attempted while inactive are dropped without an
\* error and counted, so every dropped publish leaves the processor in a
\* different state (its dropped-publish count has grown).
C8_DroppedPublishesCounted ==
    [][/\ (ProcessCalled /\ batchReady /\ GateInactive) =>
             (points' = points /\ points_base_link' = points_base_link
              /\ ret' = "true")
       /\ inactiveAttempts' # inactiveAttempts =>
             ProcessorState' # ProcessorState]_vars

\* C8 amended: every publish attempted while the gate is inactive is
\* dropped, nothing is delivered on either channel, no exception is raised
\* and process() returns success.
C8_InactivePublishDropped ==
    [][(ProcessCalled /\ batchReady /\ GateInactive) =>
          /\ points' = points
          /\ points_base_link' = points_base_link
          /\ inactiveAttempts' = inactiveAttempts + PublishCalls
          /\ ret' = "true"
          /\ alive']_vars

\* Two batches processed while inactive, one without and one with a
\* transform: three publishes dropped.
C8_Witness ==
    /\ GateInactive
    /\ calls = 2
    /\ inactiveAttempts = 3
    /\ ret = "true"
    /\ points = EmptyChannel
    /\ points_base_link = EmptyChannel

\* C9: cropBox removes exactly the points inside the closed box
\* [crop_min, crop_max] and keeps the others in order, as an unorganized
\* cloud; a box strictly containing every point leaves an empty cloud and a
\* box containing no point leaves the points unchanged.
C9_CropExcludesBox ==
    crop_done =>
        LET pts == crop_in.points
            Within(p) ==
                /\ Len(p) = 3
                /\ crop_min[1] <= p[1] /\ p[1] <= crop_max[1]
                /\ crop_min[2] <= p[2] /\ p[2] <= crop_max[2]
                /\ crop_min[3] <= p[3] /\ p[3] <= crop_max[3]
            StrictlyWithin(p) ==
                /\ Len(p) = 3
                /\ crop_min[1] < p[1] /\ p[1] < crop_max[1]
                /\ crop_min[2] < p[2] /\ p[2] < crop_max[2]
                /\ crop_min[3] < p[3] /\ p[3] < crop_max[3]
            Outside(p) == ~Within(p)
        IN /\ crop_out.points = SelectSeq(pts, Outside)
           /\ crop_out.height = 1
           /\ crop_out.width = Len(crop_out.points)
           /\ (\A i \in 1..Len(pts) : StrictlyWithin(pts[i])) =>
                 crop_out.points = << >>
           /\ (\A i \in 1..Len(pts) : ~Within(pts[i])) => crop_out.points = pts

\* The first of two points lay in the box and was removed, the second was
\* kept.
C9_Witness ==
    /\ crop_done
    /\ Len(crop_in.points) = 2
    /\ crop_in.points[1] = <<0, 1, 0>>
    /\ crop_in.points[2] = <<1, 1, 1>>
    /\ crop_min = <<0, 0, 0>>
    /\ crop_max = <<0, 1, 1>>
    /\ crop_out.points = << <<1, 1, 1>> >>

\* C10: the cloud built for a ready batch has _height rows and _width
\* columns, a cell holds the invalid point exactly when its range is zero,
\* and every message on "points" carries that grid unchanged.
C10_CloudKeepsGridShape ==
    [][(ProcessCalled /\ batchReady) =>
          /\ cloud'.height = _height
          /\ cloud'.width = _width
          /\ Len(cloud'.points) = _height * _width
          /\ \A u \in 0..(_height - 1), v \in 0..(_width - 1) :
                (lidarScan.range[u * _width + v + 1] = 0)
                    <=> (cloud'.points[u * _width + v + 1] = InvalidPoint)
          /\ pub_activated =>
                /\ Len(points'.delivered) = Len(points.delivered) + 1
                /\ points'.last.height = _height
                /\ points'.last.width = _width
                /\ points'.last.data = cloud'.points
          /\ Len(points'.delivered) > 0 =>
                Len(points'.last.data) = _height * _width]_vars

\* A published cloud with a single return at row 1, column 0: the three
\* zero-range cells are present as invalid points.
C10_Witness ==
    /\ Len(points.delivered) = 1
    /\ points.last.height = 2
    /\ points.last.width = 2
    /\ points.last.data = <<InvalidPoint, InvalidPoint, <<-1, 0, 1>>, InvalidPoint>>

\* The point a cell of range r yields in the sensor frame: direction * r +
\* offset of the cell's LUT entry, component by component.
SensorPoint(i, r) ==
    <<_xyz_lut.direction[i][1] * r + _xyz_lut.offset[i][1],
      _xyz_lut.direction[i][2] * r + _xyz_lut.offset[i][2],
      _xyz_lut.direction[i][3] * r + _xyz_lut.offset[i][3]>>

\* A sensor-frame point expressed in base_link: rotated, then translated.
BasePoint(t, p) ==
    IF t.rotation = "yaw90"
    THEN <<t.translation[1] - p[2], t.translation[2] + p[1], t.translation[3] + p[3]>>
    ELSE <<t.translation[1] + p[1], t.translation[2] + p[2], t.translation[3] + p[3]>>

\* C11: for a ready batch processed while the gate is active, every cell
\* with a non-zero range is, in the message delivered on "points", the point
\* direction * range + offset of the cell's LUT entry; when the lookup
\* succeeds the same cell is, in the message delivered on
\* "points_base_link", that point rotated and translated by the resolved
\* transform.
C11_PointsFromLutAndTransform ==
    [][(ProcessCalled /\ batchReady /\ GateActive) =>
          \A i \in 1..(_height * _width) :
             lidarScan.range[i] # 0 =>
                /\ Len(points'.delivered) = Len(points.delivered) + 1
                /\ points'.last.data[i] = SensorPoint(i, lidarScan.range[i])
                /\ LookupOk =>
                      /\ Len(points_base_link'.delivered)
                            = Len(points_base_link.delivered) + 1
                      /\ points_base_link'.last.data[i]
                            = BasePoint(lookupTransform(tf_buffer_,
                                                        LookupTime(timestamp)).transform,
                                        SensorPoint(i, lidarScan.range[i]))]_vars

\* A cell of range 1 along +x is (1, 0, 0) on "points" and, under the
\* translation (1, 0, 0) with identity rotation, (2, 0, 0) on
\* "points_base_link"; a rotated cell is reached as well.
C11_Witness ==
    /\ Len(points.delivered) = 1
    /\ Len(points_base_link.delivered) = 1
    /\ tf_buffer_ = << [rotation |-> "identity", translation |-> <<1, 0, 0>>] >>
    /\ lidarScan.range[1] = 1
    /\ points.last.data[1] = <<1, 0, 0>>
    /\ points_base_link.last.data[1] = <<2, 0, 0>>

\* C12 as stated: no batch is delivered on "points" more than once, however
\* often process() is invoked while the batch stays ready.
C12_BatchPublishedOnce ==
    \A i, j \in 1..Len(points.delivered) :
       i # j => points.delivered[i] # points.delivered[j]

\* C12: every invocation of process() on a ready batch while "points" is
\* activated builds one cloud and delivers exactly one message for that
\* batch on "points", whether or not the batch was delivered before; no
\* other step delivers on "points".
C12_OnePublishPerInvocation ==
    [][/\ (ProcessCalled /\ batchReady /\ pub_activated) =>
             /\ points'.delivered = Append(points.delivered, timestamp)
             /\ points'.last.batch = timestamp
             /\ cloud' = toCloud(_xyz_lut, lidarScan).cloud
       /\ ~(ProcessCalled /\ batchReady /\ pub_activated) =>
             points' = points]_vars

\* process() was invoked twice within one readiness cycle of batch 1.
C12_Witness ==
    /\ calls = 2
    /\ timestamp = 1
    /\ batchReady
    /\ points.delivered = <<1, 1>>

C14_GateFollowsLastCall ==
    [][/\ (last_transition' = "activate") =>
             (pub_activated' /\ pub_base_link_activated')
       /\ (last_transition' \in {"none", "deactivate"}) =>
             (~pub_activated' /\ ~pub_base_link_activated')
       /\ (last_transition' = last_transition) =>
             (pub_activated' = pub_activated
                /\ pub_base_link_activated' = pub_base_link_activated)
       /\ (last_transition = "activate" /\ ProcessCalled /\ batchReady) =>
             points'.delivered = Append(points.delivered, timestamp)
       /\ (last_transition # "activate" /\ ProcessCalled) =>
             points'.delivered = points.delivered]_vars

\* The gate was active (batch 1 delivered), then inactive (the cloud was
\* rebuilt from batch 2 and its publish dropped), and is active again.
C14_Witness ==
    /\ last_transition = "activate"
    /\ pub_activated
    /\ pub_base_link_activated
    /\ points.delivered = <<1>>
    /\ timestamp = 2
    /\ cloud = toCloud(_xyz_lut, lidarScan).cloud
    /\ points.last.data # cloud.points
    /\ inactiveAttempts > 0

\* C15: an invocation of process(), whatever its path (not ready, published
\* on both topics, lookup failed), leaves the activation of both publishers
\* as it found it; a step that changes the activation of a publisher is an
\* onActivate() or onDeactivate() call and not an invocation of process().
C15_ProcessKeepsGate ==
    [][/\ ProcessCalled =>
             /\ pub_activated' = pub_activated
             /\ pub_base_link_activated' = pub_base_link_activated
             /\ last_transition' = last_transition
       /\ (pub_activated' # pub_activated
             \/ pub_base_link_activated' # pub_base_link_activated) =>
             /\ ~ProcessCalled
             /\ last_transition' # last_transition
             /\ last_transition' \in {"activate", "deactivate"}
             /\ ret' = ret
             /\ steps' = steps]_vars

\* With the gate active, one invocation has published on both topics and the
\* next one lost its transform: the gate is still active.
C15_Witness ==
    /\ calls = 2
    /\ pub_activated
    /\ pub_base_link_activated
    /\ Len(points_base_link.delivered) = 1
    /\ Len(points.delivered) = 2
    /\ PreviousLookupFailed
    /\ ret = "true"

\* The accumulator as the processor sees it: readiness, scan, timestamp and
\* packet count.
BatchSource == <<batchReady, lidarScan, timestamp, packetsAccumulated>>

\* C16: an invocation of process() and a call of onActivate() or
\* onDeactivate() leave the accumulator's readiness flag, scan, timestamp
\* and packet count as they were.
C16_BatchSourceOnlyRead ==
    [][(ProcessCalled
          \/ last_transition' # last_transition
          \/ pub_activated' # pub_activated
          \/ pub_base_link_activated' # pub_base_link_activated) =>
          /\ batchReady' = batchReady
          /\ lidarScan' = lidarScan
          /\ timestamp' = timestamp
          /\ packetsAccumulated' = packetsAccumulated
          /\ BatchSource' = BatchSource]_vars

\* Batch 2 was published and the gate then closed: the batch is still ready,
\* with its scan, timestamp and packet count.
C16_Witness ==
    /\ calls > 0
    /\ last_transition = "deactivate"
    /\ points.last.batch = 2
    /\ batchReady
    /\ timestamp = 2
    /\ packetsAccumulated = 2
    /\ lidarScan.range[1] = 1
    /\ points.last.data[1] = <<1, 0, 0>>

\* C17: every message delivered on "points" is in the sensor frame and
\* every message delivered on "points_base_link" is in base_link; when one
\* invocation delivers a batch on both topics, the message on "points" still
\* holds the untransformed cloud and the sensor frame after the in-place
\* transformation that produced the message on "points_base_link".
C17_FramesPerChannel ==
    [][/\ Len(points'.delivered) > 0 => points'.last.frame_id = "laser_sensor_frame"
       /\ Len(points_base_link'.delivered) > 0 =>
             points_base_link'.last.frame_id = "base_link"
       /\ (ProcessCalled /\ batchReady /\ GateActive /\ LookupOk) =>
             /\ points'.last.batch = timestamp
             /\ points_base_link'.last.batch = timestamp
             /\ points'.last.frame_id = _frame
             /\ points'.last.data = cloud'.points
             /\ \A i \in 1..(_height * _width) :
                   points'.last.data[i] =
                      IF lidarScan.range[i] = 0 THEN InvalidPoint
                      ELSE SensorPoint(i, lidarScan.range[i])]_vars

\* Batch 2 on both topics: (1, 0, 0) in the sensor frame on "points", its
\* image (0, 1, 2) under the yaw-and-lift transform on "points_base_link".
C17_Witness ==
    /\ points.last.batch = 2
    /\ points_base_link.last.batch = 2
    /\ points.last.frame_id = "laser_sensor_frame"
    /\ points_base_link.last.frame_id = "base_link"
    /\ points.last.data[1] = <<1, 0, 0>>
    /\ points_base_link.last.data[1] = <<0, 1, 2>>

\* Batches delivered on a topic.
Batches(channel) == {channel.delivered[i] : i \in 1..Len(channel.delivered)}

\* The statement the running invocation executes next ("none" when idle).
NextStatement ==
    IF invocation.pc > 0 THEN ProcessBody[invocation.pc] ELSE "none"

\* C18 as stated: with lifecycle calls arriving between the statements of
\* process(), every batch delivered on "points_base_link" is also delivered
\* on "points", and no step delivers a message on either topic between a
\* completed onDeactivate() and the next onActivate().
C18_SecondaryImpliesPrimaryInterleaved ==
    [][/\ Batches(points_base_link') \subseteq Batches(points')
       /\ (last_transition = "deactivate" /\ last_transition' = "deactivate") =>
             (points' = points /\ points_base_link' = points_base_link)]_vars

\* C18: with lifecycle calls arriving between the statements of process(),
\* no step delivers a message on either topic between a completed
\* onDeactivate() and the next onActivate(); each publish statement delivers
\* exactly when its own publisher is activated at the moment the statement
\* runs, whatever the gate was at the other publish of the same invocation.
C18_NoDeliveryWhileDeactivated ==
    [][/\ (last_transition = "deactivate" /\ last_transition' = "deactivate") =>
             (points' = points /\ points_base_link' = points_base_link)
       /\ (last_transition = "none" /\ last_transition' = "none") =>
             (points' = points /\ points_base_link' = points_base_link)
       /\ (NextStatement = "publish" /\ invocation' # invocation) =>
             /\ points_base_link' = points_base_link
             /\ points'.delivered = IF pub_activated
                                    THEN Append(points.delivered, timestamp)
                                    ELSE points.delivered
       /\ (NextStatement = "publish_base_link" /\ invocation' # invocation) =>
             /\ points' = points
             /\ points_base_link'.delivered
                   = IF pub_base_link_activated
                     THEN Append(points_base_link.delivered, timestamp)
                     ELSE points_base_link.delivered]_vars

\* onDeactivate() landed between the two publishes of one invocation: batch 1
\* is on "points", its publish on "points_base_link" was made and dropped.
C18_Witness ==
    /\ invocation.pc = 0
    /\ calls = 1
    /\ last_transition = "deactivate"
    /\ points.delivered = <<1>>
    /\ points_base_link.delivered = << >>
    /\ Executed("publish_base_link")
    /\ inactiveAttempts = 1

====
